---------------------------- MODULE Spec2Model ----------------------------
(***************************************************************************)
(* One run of the burnout dashboard script src/app.py, from the schema     *)
(* check (line 63) to the rendering of the nudges (line 207).              *)
(*                                                                         *)
(* A data frame is a record [columns, rows]: the set of its column names   *)
(* and the sequence of its rows, each row a function from the column names *)
(* to the cell values.  Floating point columns are kept in hundredths      *)
(* (prob_high 0.35 is 35, isolation_score 0.75 is 75); counts and hours    *)
(* are kept as they are.  A missing cell of a rule input is NaN, for which *)
(* every comparison is false.  The snapshot holds at least one row.        *)
(*                                                                         *)
(* The KPI row (lines 109-113), the charts and the tables only display     *)
(* what the state below holds; they are not steps of the model.            *)
(***************************************************************************)
EXTENDS Integers, Sequences, FiniteSets, TLC

VARIABLES
    pc,                 \* the place of the run in the script
    halt,               \* why the run ended early ("none" while it has not)
    cache,              \* the data set load_data() holds (st.cache_data)
    df,                 \* the script's df
    model,              \* the classifier load_model() returned
    missing_cols,       \* line 63
    proba, pred,        \* lines 73, 74 (<<>> until computed)
    selected_week, selected_countries, selected_teams, selected_risk,
    fdf,                \* lines 99-104
    risk_table, high_risk,      \* lines 129, 133
    selected_emp, emp_history, selected_row, row,
    nudges,             \* line 188
    log                 \* the steps of the run so far, in order

vars == <<pc, halt, cache, df, model, missing_cols, proba, pred,
          selected_week, selected_countries, selected_teams, selected_risk,
          fdf, risk_table, high_risk, selected_emp, emp_history,
          selected_row, row, nudges, log>>

---------------------------------------------------------------------------
(* Bounds of the model *)

MaxRecords == 2
MaxMissing == 2

---------------------------------------------------------------------------
(* The feature contract, lines 43-63 *)

NUM_FEATURES ==
    << "total_emails_sent", "total_emails_received", "avg_email_reply_time_min",
       "total_slack_msgs_sent", "after_hours_msgs_count", "num_meetings",
       "total_meeting_hours", "back_to_back_meeting_blocks",
       "unique_contacts_count", "degree_centrality", "betweenness_centrality",
       "isolation_score", "z_after_hours_within_country",
       "z_reply_time_within_country", "z_meeting_load_within_country" >>

CAT_FEATURES == << "role", "team", "country", "culture_cluster" >>

RequiredColumns == NUM_FEATURES \o CAT_FEATURES \o << "employee_id", "week_start_date" >>

Range(s) == { s[i] : i \in DOMAIN s }

FeatureColumns == Range(NUM_FEATURES \o CAT_FEATURES)

DerivedColumns == { "predicted_label", "prob_low", "prob_medium", "prob_high" }

table_cols ==
    << "employee_id", "role", "team", "country", "week_start_date",
       "predicted_label", "prob_high", "after_hours_msgs_count",
       "total_meeting_hours", "back_to_back_meeting_blocks", "isolation_score" >>

---------------------------------------------------------------------------
(* Cell values *)

NaN == 0 - 1

\* x > y on floats: false when an operand is NaN
Gt(x, y) == x # NaN /\ y # NaN /\ x > y

\* x >= y on floats: false when an operand is NaN
Ge(x, y) == x # NaN /\ y # NaN /\ x >= y


---------------------------------------------------------------------------
(* Data frames *)

NoFrame == [columns |-> {}, rows |-> <<>>]

\* d[cols]: the columns cols of d, the rows kept in order
Project(d, cols) ==
    [columns |-> cols,
     rows    |-> [i \in DOMAIN d.rows |-> [c \in cols |-> d.rows[i][c]]]]

\* d[mask]: the rows of d that the mask keeps (those in keep), in order
Mask(d, keep) ==
    [columns |-> d.columns, rows |-> SelectSeq(d.rows, LAMBDA r : r \in keep)]

\* the rows of d, as a set
Rows(d) == Range(d.rows)

\* d[col].unique(), as a set
Unique(d, col) == { d.rows[i][col] : i \in DOMAIN d.rows }

RECURSIVE SortedSeq(_)
\* sorted(S) for a finite set of integers
SortedSeq(S) ==
    IF S = {} THEN <<>>
    ELSE LET m == CHOOSE x \in S : \A y \in S : x <= y
         IN  <<m>> \o SortedSeq(S \ {m})

\* whether the rows are in the order sort_values(col, ascending) leaves them in
Ordered(rows, col, ascending) ==
    \A i, j \in DOMAIN rows :
        i < j => IF ascending THEN rows[i][col] <= rows[j][col]
                              ELSE rows[i][col] >= rows[j][col]

\* d.sort_values(col, ascending=...): the default quicksort is not stable, so
\* rows with equal keys may come out in any order
sort_values(d, col, ascending) ==
    { [columns |-> d.columns, rows |-> [i \in DOMAIN d.rows |-> d.rows[p[i]]]] :
        p \in { q \in Permutations(DOMAIN d.rows) :
                  Ordered([i \in DOMAIN d.rows |-> d.rows[q[i]]], col, ascending) } }

---------------------------------------------------------------------------
(* The classifier, an opaque function of the feature columns (line 68) *)

FeaturesOf(r) == [c \in FeatureColumns |-> r[c]]

\* X = df[NUM_FEATURES + CAT_FEATURES].copy()
FeatureRows(d) == [i \in DOMAIN d.rows |-> FeaturesOf(d.rows[i])]

\* model.predict_proba(X): one <<low, medium, high>> per row
predict_proba(m, X) == [i \in DOMAIN X |-> m.out[X[i]].proba]

\* model.predict(X): one label per row
predict(m, X) == [i \in DOMAIN X |-> m.out[X[i]].label]

---------------------------------------------------------------------------
(* The inputs of a run: the loaded snapshot and the loaded classifier *)

RequiredSet == Range(RequiredColumns)

ExtraColumns == { "burnout_label", "prob_high" }

RECURSIVE SubsetsUpTo(_, _)
SubsetsUpTo(S, k) ==
    IF k = 0 THEN { {} }
    ELSE LET P == SubsetsUpTo(S, k - 1)
         IN  P \cup { p \cup {x} : p \in P, x \in S }

MkRow(cols, emp, week, team, country, ah, hrs, b2b, iso) ==
    [c \in cols |->
        CASE c = "employee_id"                 -> emp
          [] c = "week_start_date"             -> week
          [] c = "team"                        -> team
          [] c = "country"                     -> country
          [] c = "after_hours_msgs_count"      -> ah
          [] c = "total_meeting_hours"         -> hrs
          [] c = "back_to_back_meeting_blocks" -> b2b
          [] c = "isolation_score"             -> iso
          [] c \in { "role", "culture_cluster" } -> "r"
          [] OTHER                             -> 0]

\* snapshots whose columns vary: required columns missing, other columns present
SchemaSnapshots ==
    { [columns |-> cols,
       rows    |-> << MkRow(cols, 1, 1, "A", "X", 25, 5, 0, 10),
                      MkRow(cols, 2, 1, "B", "Y", 5, 22, 1, 80) >>] :
        cols \in { (RequiredSet \ miss) \cup extra :
                     miss \in SubsetsUpTo(RequiredSet, MaxMissing),
                     extra \in SUBSET ExtraColumns } }

IdentityRows ==
    { MkRow(RequiredSet, emp, week, team, country, 25, 5, 0, 80) :
        emp \in {1, 2}, week \in {1, 2}, team \in {"A", "B"}, country \in {"X"} }

\* snapshots whose employees, weeks and teams vary
DataSnapshots ==
    { [columns |-> RequiredSet, rows |-> rs] :
        rs \in UNION { [1..n -> IdentityRows] : n \in 1..MaxRecords } }

RuleValues == { 5, 20, 21, NaN }
BlockValues == { 0, 2, 3, NaN }
IsolationValues == { 10, 75, 76, NaN }

\* snapshots of one record whose rule inputs vary around the thresholds
RuleSnapshots ==
    { [columns |-> RequiredSet,
       rows    |-> << MkRow(RequiredSet, 1, 1, "A", "X", ah, hrs, b2b, iso) >>] :
        ah \in RuleValues, hrs \in RuleValues, b2b \in BlockValues,
        iso \in IsolationValues }

WideOutputs ==
    { [label |-> 0, proba |-> <<90, 5, 5>>],
      [label |-> 0, proba |-> <<40, 30, 30>>],
      [label |-> 1, proba |-> <<29, 40, 31>>],
      [label |-> 1, proba |-> <<25, 40, 35>>],
      [label |-> 2, proba |-> <<30, 34, 36>>],
      [label |-> 2, proba |-> <<10, 40, 50>>] }

NarrowOutputs ==
    { [label |-> 0, proba |-> <<90, 5, 5>>],
      [label |-> 2, proba |-> <<30, 34, 36>>],
      [label |-> 2, proba |-> <<10, 40, 50>>] }

FailModes == { "none", "predict_proba", "predict" }

\* the classifiers, each given by its answers on the rows of the snapshot d
Classifiers(d, outputs) ==
    LET X == IF RequiredSet \subseteq d.columns THEN Range(FeatureRows(d)) ELSE {}
    IN  [fails : FailModes, out : [X -> outputs]]

---------------------------------------------------------------------------
(* The state after lines 28-38: the snapshot and the classifier are loaded *)

Start(d, m) ==
    /\ pc = "validate"
    /\ halt = "none"
    /\ cache = d
    /\ df = d
    /\ model = m
    /\ missing_cols = <<>>
    /\ proba = <<>>
    /\ pred = <<>>
    /\ selected_week = 0
    /\ selected_countries = {}
    /\ selected_teams = {}
    /\ selected_risk = {}
    /\ fdf = NoFrame
    /\ risk_table = NoFrame
    /\ high_risk = NoFrame
    /\ selected_emp = 0
    /\ emp_history = NoFrame
    /\ selected_row = NoFrame
    /\ row = <<>>
    /\ nudges = <<>>
    /\ log = <<>>

Init ==
    \/ \E d \in SchemaSnapshots : \E m \in Classifiers(d, NarrowOutputs) : Start(d, m)
    \/ \E d \in DataSnapshots : \E m \in Classifiers(d, NarrowOutputs) : Start(d, m)
    \/ \E d \in RuleSnapshots : \E m \in Classifiers(d, WideOutputs) : Start(d, m)

\* st.stop(), or an exception nothing catches: the run ends
Stop(why) ==
    /\ pc' = "stopped"
    /\ halt' = why

---------------------------------------------------------------------------
(* Schema check, lines 63-66 *)

\* a faulty variant of MissingCols: the report stops at the first missing column
MissingColsFirst(d) ==
    LET all == SelectSeq(RequiredColumns, LAMBDA c : c \notin d.columns)
    IN  IF all = <<>> THEN <<>> ELSE <<Head(all)>>

MissingCols(d) == SelectSeq(RequiredColumns, LAMBDA c : c \notin d.columns)

Validate ==
    /\ pc = "validate"
    /\ missing_cols' = MissingCols(df)
    /\ log' = Append(log, "validate")
    /\ IF missing_cols' # <<>>
         THEN Stop("schema")
         ELSE pc' = "predict_proba" /\ halt' = halt
    /\ UNCHANGED <<cache, df, model, proba, pred, selected_week,
                   selected_countries, selected_teams, selected_risk, fdf,
                   risk_table, high_risk, selected_emp, emp_history,
                   selected_row, row, nudges>>

---------------------------------------------------------------------------
(* Inference, lines 68-80 *)

\* line 73; an exception of the classifier is not caught
PredictProba ==
    /\ pc = "predict_proba"
    /\ log' = Append(log, "predict_proba")
    /\ IF model.fails = "predict_proba"
         THEN Stop("classifier_error") /\ proba' = proba
         ELSE /\ proba' = predict_proba(model, FeatureRows(df))
              /\ pc' = "predict"
              /\ halt' = halt
    /\ UNCHANGED <<cache, df, model, missing_cols, pred, selected_week,
                   selected_countries, selected_teams, selected_risk, fdf,
                   risk_table, high_risk, selected_emp, emp_history,
                   selected_row, row, nudges>>

\* a faulty variant of Predict: an exception of the classifier is swallowed
\* and every record is given label 0
PredictDefaultOnError ==
    /\ pc = "predict"
    /\ log' = Append(log, "predict")
    /\ pred' = IF model.fails = "predict"
                 THEN [i \in DOMAIN df.rows |-> 0]
                 ELSE predict(model, FeatureRows(df))
    /\ pc' = "enrich"
    /\ UNCHANGED <<halt, cache, df, model, missing_cols, proba, selected_week,
                   selected_countries, selected_teams, selected_risk, fdf,
                   risk_table, high_risk, selected_emp, emp_history,
                   selected_row, row, nudges>>

\* line 74
Predict ==
    /\ pc = "predict"
    /\ log' = Append(log, "predict")
    /\ IF model.fails = "predict"
         THEN Stop("classifier_error") /\ pred' = pred
         ELSE /\ pred' = predict(model, FeatureRows(df))
              /\ pc' = "enrich"
              /\ halt' = halt
    /\ UNCHANGED <<cache, df, model, missing_cols, proba, selected_week,
                   selected_countries, selected_teams, selected_risk, fdf,
                   risk_table, high_risk, selected_emp, emp_history,
                   selected_row, row, nudges>>

\* lines 77-80 on the copy of line 76: a column of that name is replaced, a
\* new one is added
Assign(d, labels, probs) ==
    [columns |-> d.columns \cup DerivedColumns,
     rows    |-> [i \in DOMAIN d.rows |->
                    [c \in d.columns \cup DerivedColumns |->
                        CASE c = "predicted_label" -> labels[i]
                          [] c = "prob_low"        -> probs[i][1]
                          [] c = "prob_medium"     -> probs[i][2]
                          [] c = "prob_high"       -> probs[i][3]
                          [] OTHER                 -> d.rows[i][c]]]]

\* a faulty variant of Enrich: without the copy of line 76 the columns are
\* written into the frame the loader holds
EnrichInPlace ==
    /\ pc = "enrich"
    /\ df' = Assign(df, pred, proba)
    /\ cache' = df'
    /\ log' = Append(log, "enrich")
    /\ pc' = "filters"
    /\ UNCHANGED <<halt, model, missing_cols, proba, pred, selected_week,
                   selected_countries, selected_teams, selected_risk, fdf,
                   risk_table, high_risk, selected_emp, emp_history,
                   selected_row, row, nudges>>

\* lines 76-80: df is rebound to a copy, the loaded frame is left as it was
Enrich ==
    /\ pc = "enrich"
    /\ df' = Assign(df, pred, proba)
    /\ cache' = cache
    /\ log' = Append(log, "enrich")
    /\ pc' = "filters"
    /\ UNCHANGED <<halt, model, missing_cols, proba, pred, selected_week,
                   selected_countries, selected_teams, selected_risk, fdf,
                   risk_table, high_risk, selected_emp, emp_history,
                   selected_row, row, nudges>>

---------------------------------------------------------------------------
(* Sidebar filters, lines 87-104 *)

week_options(d) == SortedSeq(Unique(d, "week_start_date"))

\* lines 99-104
FilteredView(d, week, countries, teams, risk) ==
    Mask(d, { r \in Rows(d) : /\ r["week_start_date"] = week
                              /\ r["country"] \in countries
                              /\ r["team"] \in teams
                              /\ r["predicted_label"] \in risk })

\* the choices of the risk-label multiselect of line 96 that a run is given
RiskSelections == { {0, 1, 2}, {2}, {0, 1}, {} }

\* the widgets return any option (selectbox) or any set of options
\* (multiselect) the user has chosen
Filters ==
    /\ pc = "filters"
    /\ \E w \in Range(week_options(df)) :
       \E cs \in SUBSET Unique(df, "country") :
       \E ts \in SUBSET Unique(df, "team") :
       \E rs \in RiskSelections :
          /\ selected_week' = w
          /\ selected_countries' = cs
          /\ selected_teams' = ts
          /\ selected_risk' = rs
          /\ fdf' = FilteredView(df, w, cs, ts, rs)
    /\ pc' = "risk_table"
    /\ UNCHANGED <<halt, cache, df, model, missing_cols, proba, pred,
                   risk_table, high_risk, selected_emp, emp_history,
                   selected_row, row, nudges, log>>

---------------------------------------------------------------------------
(* Risk table and high-risk download, lines 122-139 *)

\* a faulty variant of HighRisk: medium risk is taken for high risk too
HighRiskAtLeastMedium(t) == Mask(t, { r \in Rows(t) : r["predicted_label"] >= 1 })

\* line 133
HighRisk(t) == Mask(t, { r \in Rows(t) : r["predicted_label"] = 2 })

\* line 129
RiskTableOf(d) == sort_values(Project(d, Range(table_cols)), "prob_high", FALSE)

RiskTable ==
    /\ pc = "risk_table"
    /\ \E t \in RiskTableOf(fdf) :
          /\ risk_table' = t
          /\ high_risk' = HighRisk(t)
    /\ pc' = "employee"
    /\ UNCHANGED <<halt, cache, df, model, missing_cols, proba, pred,
                   selected_week, selected_countries, selected_teams,
                   selected_risk, fdf, selected_emp, emp_history,
                   selected_row, row, nudges, log>>

---------------------------------------------------------------------------
(* Employee detail, lines 148-181 *)

employee_options(d) == SortedSeq(Unique(d, "employee_id"))

\* lines 148-153
SelectEmployee ==
    /\ pc = "employee"
    /\ IF Len(fdf.rows) = 0
         THEN Stop("empty_filter") /\ selected_emp' = selected_emp
         ELSE /\ selected_emp' \in Range(employee_options(fdf))
              /\ pc' = "lookup"
              /\ halt' = halt
    /\ UNCHANGED <<cache, df, model, missing_cols, proba, pred, selected_week,
                   selected_countries, selected_teams, selected_risk, fdf,
                   risk_table, high_risk, emp_history, selected_row, row,
                   nudges, log>>

\* line 155
EmpHistory(d, emp) ==
    sort_values(Mask(d, { r \in Rows(d) : r["employee_id"] = emp }),
                "week_start_date", TRUE)

\* a faulty variant of SelectedRow: the week is not looked at
SelectedRowAnyWeek(h, week) == Mask(h, { r \in Rows(h) : TRUE })

\* line 156
SelectedRow(h, week) == Mask(h, { r \in Rows(h) : r["week_start_date"] = week })

\* lines 155-156
Lookup ==
    /\ pc = "lookup"
    /\ \E h \in EmpHistory(df, selected_emp) :
          /\ emp_history' = h
          /\ selected_row' = SelectedRow(h, selected_week)
    /\ pc' = "row_check"
    /\ UNCHANGED <<halt, cache, df, model, missing_cols, proba, pred,
                   selected_week, selected_countries, selected_teams,
                   selected_risk, fdf, risk_table, high_risk, selected_emp,
                   row, nudges, log>>

\* lines 162-166
RowCheck ==
    /\ pc = "row_check"
    /\ IF Len(selected_row.rows) = 0
         THEN Stop("no_record") /\ row' = row
         ELSE /\ row' = selected_row.rows[1]
              /\ pc' = "snapshot"
              /\ halt' = halt
    /\ UNCHANGED <<cache, df, model, missing_cols, proba, pred, selected_week,
                   selected_countries, selected_teams, selected_risk, fdf,
                   risk_table, high_risk, selected_emp, emp_history,
                   selected_row, nudges, log>>

\* lines 170-181: int() of a missing count raises, float() of a missing value
\* does not
Snapshot ==
    /\ pc = "snapshot"
    /\ IF \/ row["after_hours_msgs_count"] = NaN
          \/ row["back_to_back_meeting_blocks"] = NaN
         THEN Stop("snapshot_error")
         ELSE pc' = "boundary" /\ halt' = halt
    /\ UNCHANGED <<cache, df, model, missing_cols, proba, pred, selected_week,
                   selected_countries, selected_teams, selected_risk, fdf,
                   risk_table, high_risk, selected_emp, emp_history,
                   selected_row, row, nudges, log>>

---------------------------------------------------------------------------
(* JITAI nudge rules, lines 188-207 *)

AfterHoursLimit == 20
BoundaryProb == 35
BlocksLimit == 3
MeetingHoursLimit == 20
IsolationLimit == 75
ConnectionProb == 30

BoundaryMsg == "Boundary Nudge"
MeetingMsg == "Meeting Recovery Nudge"
ConnectionMsg == "Connection Nudge"
FallbackMsg == "No strong intervention needed"

\* a faulty variant of BoundaryRule: the thresholds are inclusive
BoundaryRuleInclusive(r) ==
    Ge(r["after_hours_msgs_count"], AfterHoursLimit) /\ Ge(r["prob_high"], BoundaryProb)

\* line 191
BoundaryRule(r) ==
    Gt(r["after_hours_msgs_count"], AfterHoursLimit) /\ Gt(r["prob_high"], BoundaryProb)

\* line 195
MeetingRule(r) ==
    Ge(r["back_to_back_meeting_blocks"], BlocksLimit)
        \/ Gt(r["total_meeting_hours"], MeetingHoursLimit)

\* a faulty variant of ConnectionRule: prob_high is not required
ConnectionRuleIsolationOnly(r) == Gt(r["isolation_score"], IsolationLimit)

\* line 199
ConnectionRule(r) ==
    Gt(r["isolation_score"], IsolationLimit) /\ Gt(r["prob_high"], ConnectionProb)

RuleFrame ==
    UNCHANGED <<halt, cache, df, model, missing_cols, proba, pred,
                selected_week, selected_countries, selected_teams,
                selected_risk, fdf, risk_table, high_risk, selected_emp,
                emp_history, selected_row, row>>

\* lines 188-192
Boundary ==
    /\ pc = "boundary"
    /\ nudges' = IF BoundaryRule(row) THEN <<BoundaryMsg>> ELSE <<>>
    /\ log' = Append(log, "derive")
    /\ pc' = "meeting"
    /\ RuleFrame

\* a faulty variant of Meeting: the rule is an elif of the Boundary rule
MeetingElif ==
    /\ pc = "meeting"
    /\ nudges' = IF nudges = <<>> /\ MeetingRule(row)
                   THEN Append(nudges, MeetingMsg) ELSE nudges
    /\ pc' = "connection"
    /\ log' = log
    /\ RuleFrame

\* lines 195-196
Meeting ==
    /\ pc = "meeting"
    /\ nudges' = IF MeetingRule(row) THEN Append(nudges, MeetingMsg) ELSE nudges
    /\ pc' = "connection"
    /\ log' = log
    /\ RuleFrame

\* lines 199-200
Connection ==
    /\ pc = "connection"
    /\ nudges' = IF ConnectionRule(row) THEN Append(nudges, ConnectionMsg) ELSE nudges
    /\ pc' = "fallback"
    /\ log' = log
    /\ RuleFrame

\* a faulty variant of Fallback: the message is added whatever the list holds
FallbackAlways ==
    /\ pc = "fallback"
    /\ nudges' = Append(nudges, FallbackMsg)
    /\ pc' = "render"
    /\ log' = log
    /\ RuleFrame

\* a faulty variant of Fallback: the test of line 203 is inverted
FallbackInverted ==
    /\ pc = "fallback"
    /\ nudges' = IF nudges # <<>> THEN Append(nudges, FallbackMsg) ELSE nudges
    /\ pc' = "render"
    /\ log' = log
    /\ RuleFrame

\* lines 203-204
Fallback ==
    /\ pc = "fallback"
    /\ nudges' = IF nudges = <<>> THEN Append(nudges, FallbackMsg) ELSE nudges
    /\ pc' = "render"
    /\ log' = log
    /\ RuleFrame

\* lines 206-216
Render ==
    /\ pc = "render"
    /\ pc' = "done"
    /\ UNCHANGED <<nudges, log>>
    /\ RuleFrame

---------------------------------------------------------------------------

Next ==
    \/ Validate
    \/ PredictProba
    \/ Predict
    \/ Enrich
    \/ Filters
    \/ RiskTable
    \/ SelectEmployee
    \/ Lookup
    \/ RowCheck
    \/ Snapshot
    \/ Boundary
    \/ Meeting
    \/ Connection
    \/ Fallback
    \/ Render

Spec == Init /\ [][Next]_vars

---------------------------------------------------------------------------
(* Properties *)

\* the nudge list is final
Derived == pc \in { "render", "done" }

\* the record the rules are evaluated on has been picked (line 166)
RowPicked ==
    \/ pc \in { "snapshot", "boundary", "meeting", "connection", "fallback",
                "render", "done" }
    \/ pc = "stopped" /\ halt = "snapshot_error"

\* the risk table and the high-risk list have been built (line 133)
TableBuilt ==
    \/ pc \in { "employee", "lookup", "row_check" }
    \/ RowPicked
    \/ pc = "stopped" /\ halt \in { "empty_filter", "no_record" }

RuleMsgs == { BoundaryMsg, MeetingMsg, ConnectionMsg }

Count(s, x) == Cardinality({ i \in DOMAIN s : s[i] = x })

SameRows(a, b) == \A x \in Range(a) \cup Range(b) : Count(a, x) = Count(b, x)

\* C1: in the final nudge list the fallback message is present if and only
\* if no message of the Boundary, Meeting Recovery or Connection rule is, and
\* when it is present it is the only message.
FallbackExclusive ==
    Derived =>
        /\ (FallbackMsg \in Range(nudges)) <=> (Range(nudges) \cap RuleMsgs = {})
        /\ (FallbackMsg \in Range(nudges)) => nudges = <<FallbackMsg>>

FallbackAlone == pc = "done" /\ nudges = <<FallbackMsg>>

\* C2: before the fallback step the nudge list is the Boundary message if
\* after_hours_msgs_count > 20 and prob_high > 0.35, then the Meeting
\* Recovery message if back_to_back_meeting_blocks >= 3 or
\* total_meeting_hours > 20, then the Connection message if
\* isolation_score > 0.75 and prob_high > 0.30: each once, in that order,
\* none suppressing a later one.
RulesInOrder ==
    pc = "fallback" =>
        nudges =
            (IF row["after_hours_msgs_count"] > 20 /\ row["prob_high"] > 35
               THEN <<BoundaryMsg>> ELSE <<>>)
            \o (IF row["back_to_back_meeting_blocks"] >= 3 \/ row["total_meeting_hours"] > 20
                  THEN <<MeetingMsg>> ELSE <<>>)
            \o (IF row["isolation_score"] > 75 /\ row["prob_high"] > 30
                  THEN <<ConnectionMsg>> ELSE <<>>)

AllThreeFire == pc = "fallback" /\ nudges = <<BoundaryMsg, MeetingMsg, ConnectionMsg>>

\* C3: there are 21 required columns; the run stops at the schema check
\* exactly when a required column is absent from the loaded data, and the
\* columns it then reports are, each once, the required columns that are
\* absent; with none absent nothing is reported and the run goes on.
SchemaReport ==
    /\ Len(RequiredColumns) = 21 /\ Cardinality(RequiredSet) = 21
    /\ Len(NUM_FEATURES) = 15 /\ Len(CAT_FEATURES) = 4
    /\ log # <<>> =>
          /\ Range(missing_cols) = RequiredSet \ cache.columns
          /\ Len(missing_cols) = Cardinality(RequiredSet \ cache.columns)
          /\ (halt = "schema") <=> (RequiredSet \ cache.columns # {})
          /\ halt = "schema" => pc = "stopped"
          /\ halt # "schema" => missing_cols = <<>> /\ pc # "validate"

TwoMissingReported == halt = "schema" /\ Len(missing_cols) = 2

\* C4: the steps of a run are, in this order and each at most once, the
\* schema check, predict_proba, predict, the writing of the derived fields
\* and the nudge derivation; after a schema failure the classifier has not
\* been called, after a schema or classifier failure the run has ended with
\* the data as loaded and no nudge, and nudges are derived only after a
\* successful schema check and both classifier calls over the whole data set.
PipelineOrder ==
    /\ Len(log) <= 5
    /\ \A i \in DOMAIN log :
          log[i] = <<"validate", "predict_proba", "predict", "enrich", "derive">>[i]
    /\ halt = "schema" => log = <<"validate">>
    /\ halt \in { "schema", "classifier_error" } =>
          /\ pc = "stopped"
          /\ ~ ENABLED Next
          /\ df = cache
          /\ nudges = <<>>
    /\ "predict_proba" \in Range(log) => RequiredSet \subseteq cache.columns
    /\ (nudges # <<>> \/ "derive" \in Range(log)) =>
          /\ missing_cols = <<>>
          /\ model.fails = "none"
          /\ Len(proba) = Len(cache.rows)
          /\ Len(pred) = Len(cache.rows)
          /\ DerivedColumns \subseteq df.columns

PredictFailureEndsRun ==
    /\ halt = "classifier_error"
    /\ log = <<"validate", "predict_proba", "predict">>

\* C5: once the Connection rule has been evaluated, the Connection message
\* is in the list if and only if isolation_score > 0.75 and prob_high > 0.30.
ConnectionNeedsBoth ==
    pc \in { "fallback", "render", "done" } =>
        ((ConnectionMsg \in Range(nudges))
            <=> (row["isolation_score"] > 75 /\ row["prob_high"] > 30))

IsolatedButLowRisk ==
    /\ pc = "done"
    /\ row["isolation_score"] > 75
    /\ row["prob_high"] <= 30
    /\ ConnectionMsg \notin Range(nudges)

Enriched == "enrich" \in Range(log)

\* the fields of the loaded data named in cols are as loaded in df, record by
\* record
FieldsKept(cols) ==
    /\ Len(df.rows) = Len(cache.rows)
    /\ \A i \in DOMAIN cache.rows : \A c \in cols : df.rows[i][c] = cache.rows[i][c]

\* C6 as stated: inference adds exactly four fields, the value of every field
\* of the input is the same afterwards, the number and order of the records
\* is unchanged and the loaded data set is never modified.
InferenceAddsExactlyFour ==
    /\ [](Enriched =>
            /\ df.columns = cache.columns \cup DerivedColumns
            /\ Cardinality(df.columns) = Cardinality(cache.columns) + 4
            /\ FieldsKept(cache.columns))
    /\ [][cache' = cache]_vars

\* C6, amended: after inference the columns are those of the input together
\* with the four derived ones, every field of the input not named like a
\* derived one has its value as loaded (an input column named like a derived
\* one is overwritten), the derived fields hold the classifier's answers, the
\* number and order of the records is unchanged and the loaded data set is
\* never modified.
InferenceKeepsOtherFields ==
    /\ [](Enriched =>
            /\ df.columns = cache.columns \cup DerivedColumns
            /\ FieldsKept(cache.columns \ DerivedColumns)
            /\ \A i \in DOMAIN df.rows :
                  /\ df.rows[i]["predicted_label"] = pred[i]
                  /\ << df.rows[i]["prob_low"], df.rows[i]["prob_medium"],
                        df.rows[i]["prob_high"] >> = proba[i])
    /\ [][cache' = cache]_vars

EnrichedWithOtherColumn ==
    /\ Enriched
    /\ "burnout_label" \in cache.columns
    /\ Len(df.rows) = 2
    /\ df.rows[1]["prob_high"] # df.rows[2]["prob_high"]

Passes(r) ==
    /\ r["week_start_date"] = selected_week
    /\ r["country"] \in selected_countries
    /\ r["team"] \in selected_teams
    /\ r["predicted_label"] \in selected_risk

NineColumns ==
    { "employee_id", "role", "team", "country", "predicted_label", "prob_high",
      "after_hours_msgs_count", "total_meeting_hours", "isolation_score" }

\* C8: the high-risk list holds exactly the records of the enriched data set
\* that have predicted_label 2 and pass the four filters (each as often as
\* the data set holds it), holds no record of label 0 or 1, carries the nine
\* named columns, and is in non-increasing order of prob_high.
HighRiskList ==
    TableBuilt =>
        /\ SameRows(high_risk.rows,
                    Project(Mask(df, { r \in Rows(df) :
                                         Passes(r) /\ r["predicted_label"] = 2 }),
                            high_risk.columns).rows)
        /\ \A i \in DOMAIN high_risk.rows : high_risk.rows[i]["predicted_label"] = 2
        /\ NineColumns \subseteq high_risk.columns
        /\ \A i, j \in DOMAIN high_risk.rows :
              i < j => high_risk.rows[i]["prob_high"] >= high_risk.rows[j]["prob_high"]

HighRiskReordered ==
    /\ TableBuilt
    /\ Len(df.rows) = 2
    /\ Len(high_risk.rows) = 2
    /\ df.rows[1]["prob_high"] < df.rows[2]["prob_high"]
    /\ high_risk.rows[1]["prob_high"] > high_risk.rows[2]["prob_high"]

\* C9: in the final list, a record with after_hours_msgs_count = 20 or
\* prob_high = 0.35 has no Boundary message; one with
\* back_to_back_meeting_blocks = 3 has the Meeting Recovery message; one with
\* back_to_back_meeting_blocks = 2 and total_meeting_hours = 20 has not; and
\* one with every rule input at its threshold but fewer than 3 blocks has
\* only the fallback message.
ThresholdsAtBoundary ==
    Derived =>
        /\ (row["after_hours_msgs_count"] = 20 \/ row["prob_high"] = 35)
              => BoundaryMsg \notin Range(nudges)
        /\ row["back_to_back_meeting_blocks"] = 3 => MeetingMsg \in Range(nudges)
        /\ (row["back_to_back_meeting_blocks"] = 2 /\ row["total_meeting_hours"] = 20)
              => MeetingMsg \notin Range(nudges)
        /\ ( /\ row["after_hours_msgs_count"] = 20
             /\ row["prob_high"] \in {30, 35}
             /\ row["total_meeting_hours"] = 20
             /\ row["isolation_score"] = 75
             /\ row["back_to_back_meeting_blocks"] < 3 )
              => nudges = <<FallbackMsg>>

AllAtThreshold ==
    /\ pc = "done"
    /\ row["after_hours_msgs_count"] = 20
    /\ row["prob_high"] = 35
    /\ row["total_meeting_hours"] = 20
    /\ row["isolation_score"] = 75
    /\ row["back_to_back_meeting_blocks"] = 2
    /\ nudges = <<FallbackMsg>>

\* the records of the data set with the selected employee and week
SelectedKey ==
    { i \in DOMAIN df.rows : /\ df.rows[i]["employee_id"] = selected_emp
                             /\ df.rows[i]["week_start_date"] = selected_week }

\* what C10 and its amendment share: the run never halts for want of a
\* record of the selected employee in the selected week; past the empty check
\* the selected employee is one of the filtered set; the record the rules are
\* evaluated on is of the selected employee and week; with an empty filtered
\* set the run halts and derives nothing.
SelectionSound ==
    /\ halt # "no_record"
    /\ pc \in { "lookup", "row_check" } \/ RowPicked =>
          /\ fdf.rows # <<>>
          /\ \E i \in DOMAIN fdf.rows : fdf.rows[i]["employee_id"] = selected_emp
          /\ SelectedKey # {}
    /\ pc = "row_check" => selected_row.rows # <<>>
    /\ RowPicked =>
          /\ row["employee_id"] = selected_emp
          /\ row["week_start_date"] = selected_week
    /\ (TableBuilt /\ pc # "employee" /\ fdf.rows = <<>>) =>
          /\ pc = "stopped" /\ halt = "empty_filter"
          /\ nudges = <<>>
          /\ ~ ENABLED Next
    /\ halt = "empty_filter" => fdf.rows = <<>>

=============================================================================
